---- MODULE Spec2Model ----
(***************************************************************************)
(* Session registry (sessionManager.ts) and action dispatcher              *)
(* (playwrightRunner.ts) of open-operator.                                 *)
(*                                                                         *)
(* JavaScript runs one callback at a time, so every async function is a    *)
(* sequence of atomic segments separated by its `await`s.  A call of       *)
(* createSession, endSession, getDebugInfo or runPlaywright is a task; one *)
(* action of the model is one segment of one task: the code from a resumed *)
(* await (or from the call) up to the next await, return or throw.  The    *)
(* browser primitives (launch, newContext, newPage, close, goto, click,    *)
(* ...) are external: each settles with success or with an error.          *)
(***************************************************************************)
EXTENDS Integers, Sequences, FiniteSets

\* Number of calls (tasks) made by the callers in one behaviour.
NumTasks == 3

Tasks == 1..NumTasks
\* The ids uuidv4 draws, and an id that it never draws.
Ids == 1..NumTasks
UnknownId == NumTasks + 1
\* Handles of the browser provider: one browser, context and page per launch.
Handles == 1..NumTasks

NoId == 0
NoHandle == 0

\* A Session record (interface Session); NoSession is `undefined`.
NoSession == [browser |-> NoHandle, context |-> NoHandle, page |-> NoHandle]

\* Strings the dispatcher parses are sequences of characters.
NoInstruction == << >>
ClickInstr == <<"c", "l", "i", "c", "k", " ", "#", "a">>
TypeInstr == <<"t", "y", "p", "e", " ", "#", "a", " ", "h", "i">>
PlainInstr == <<"#", "a">>

Methods == {"GOTO", "ACT", "EXTRACT", "OBSERVE", "CLOSE", "SCREENSHOT", "WAIT", "NAVBACK"}

\* The (method, instruction) pairs the callers send.
Requests ==
    {<<m, NoInstruction>> : m \in Methods}
        \cup {<<m, PlainInstr>> : m \in {"GOTO", "EXTRACT", "OBSERVE", "WAIT"}}
        \cup {<<"ACT", i>> : i \in {ClickInstr, TypeInstr, PlainInstr}}

\* Errors are values <<kind, task, n>>: the n-th error raised inside the task.
NoError == <<"none", 0, 0>>

VARIABLES
    sessions,   \* the registry: id -> Session record, or NoSession
    browsers,   \* handle -> [state, closes] of the browser instance
    contexts,   \* handle -> [state, closes] of the browsing context
    issued,     \* ids uuidv4 has generated so far
    task        \* task -> the call's arguments, locals and position

vars == <<sessions, browsers, contexts, issued, task>>

IdleTask ==
    [kind |-> "none", pc |-> "idle",
     sessionId |-> NoId, method |-> "none", instruction |-> NoInstruction,
     browser |-> NoHandle, context |-> NoHandle,
     session |-> NoSession, page |-> NoHandle, prim |-> "none", args |-> << >>,
     where |-> "none", endError |-> NoError,
     error |-> NoError, thrown |-> NoError, result |-> "none",
     nerr |-> 0,
     \* history of the call, read by the properties only
     regAtCall |-> FALSE, relCalls |-> 0, sawReleased |-> FALSE]

NoResource == [state |-> "none", closes |-> 0]

Init ==
    /\ sessions = [i \in Ids \cup {UnknownId} |-> NoSession]
    /\ browsers = [h \in Handles |-> NoResource]
    /\ contexts = [h \in Handles |-> NoResource]
    /\ issued = {}
    /\ task = [t \in Tasks |-> IdleTask]

----------------------------------------------------------------------------
\* Helpers

\* Calls are numbered in the order they are made.
CanCall(t) ==
    /\ task[t].pc = "idle"
    /\ \A u \in Tasks : u < t => task[u].pc # "idle"

\* The ids a caller can pass: those createSession has returned, or an unknown
\* one.  An issued id has been returned unless its createSession call is
\* still running or has failed.
Returned ==
    {id \in issued :
        \A t \in Tasks :
            (task[t].kind = "create" /\ task[t].sessionId = id) => task[t].result = "id"}
Targets == Returned \cup {UnknownId}

\* A new error raised inside task record tr.
NewError(tr, kind, t) == <<kind, t, tr.nerr + 1>>

\* Map.get / Map.has / Map.set / Map.delete on the registry.
SessionsGet(m, id) == m[id]
SessionsSet(m, id, rec) == [m EXCEPT ![id] = rec]
\* A variant of delete that clears the map.
SessionsDeleteAll(m, id) == [i \in DOMAIN m |-> NoSession]
\* A variant of delete that leaves the entry in place.
SessionsDeleteKeeps(m, id) == m
SessionsDelete(m, id) == [m EXCEPT ![id] = NoSession]

Registered(id) == sessions[id] # NoSession

\* A page accepts primitives while its context and browser are open.
Released(h) == contexts[h].state = "closed" \/ browsers[h].state = "closed"
\* One of the handles of a Session record has been released.
SessionReleased(rec) ==
    contexts[rec.context].state = "closed" \/ browsers[rec.browser].state = "closed"

\* A variant that draws the same id every time.
uuidv4Constant(used) == 1
\* uuidv4(): an id no earlier call has drawn.
uuidv4(used) == CHOOSE i \in Ids : i \notin used

\* A call that has returned or thrown keeps its outcome; its arguments and
\* locals are gone (the session id stays, to name the call's target).
Settled(tr) ==
    [IdleTask EXCEPT !.kind = tr.kind, !.pc = "done", !.sessionId = tr.sessionId,
                     !.error = tr.error, !.nerr = tr.nerr,
                     !.regAtCall = tr.regAtCall, !.relCalls = tr.relCalls,
                     !.sawReleased = tr.sawReleased]
Finish(tr, res) == [Settled(tr) EXCEPT !.result = res]
Throw(tr, e) == [Settled(tr) EXCEPT !.thrown = e]

StartsWith(s, p) == Len(s) >= Len(p) /\ SubSeq(s, 1, Len(p)) = p

\* `undefined`, where a string is expected.
Undefined == <<"undefined">>
Space == " "

\* Position i of s starts an occurrence of p.
OccursAt(s, p, i) == i + Len(p) - 1 <= Len(s) /\ SubSeq(s, i, i + Len(p) - 1) = p

\* String.prototype.indexOf: the first position of p in s, or 0.
IndexOf(s, p) ==
    IF \E i \in 1..Len(s) : OccursAt(s, p, i)
    THEN CHOOSE i \in 1..Len(s) :
            OccursAt(s, p, i) /\ \A j \in 1..(i - 1) : ~OccursAt(s, p, j)
    ELSE 0

\* String.prototype.replace with a string pattern: the first occurrence only.
Replace(s, p, r) ==
    IF IndexOf(s, p) = 0 THEN s
    ELSE SubSeq(s, 1, IndexOf(s, p) - 1) \o r
             \o SubSeq(s, IndexOf(s, p) + Len(p), Len(s))

\* String.prototype.trim, for the space character: from the first to the last
\* character that is not a space.
TrimStart(s) ==
    IF \A i \in 1..Len(s) : s[i] = Space THEN << >>
    ELSE SubSeq(s, CHOOSE i \in 1..Len(s) :
                        s[i] # Space /\ \A j \in 1..(i - 1) : s[j] = Space,
                Len(s))
TrimEnd(s) ==
    IF \A i \in 1..Len(s) : s[i] = Space THEN << >>
    ELSE SubSeq(s, 1, CHOOSE i \in 1..Len(s) :
                           s[i] # Space /\ \A j \in (i + 1)..Len(s) : s[j] = Space)
Trim(s) == TrimEnd(TrimStart(s))

\* String.prototype.split on a one-character separator: every separator ends
\* a part, so adjacent separators give empty parts.  SeparatorAt(s, sep, k) is
\* the position of the k-th separator; the string is taken to have one before
\* its first and one after its last character.
Separators(s, sep) == {i \in 1..Len(s) : s[i] = sep}
SeparatorAt(s, sep, k) ==
    IF k = 0 THEN 0
    ELSE IF k > Cardinality(Separators(s, sep)) THEN Len(s) + 1
    ELSE CHOOSE i \in Separators(s, sep) :
            Cardinality({j \in Separators(s, sep) : j < i}) = k - 1
Split(s, sep) ==
    [k \in 1..(Cardinality(Separators(s, sep)) + 1) |->
        SubSeq(s, SeparatorAt(s, sep, k - 1) + 1, SeparatorAt(s, sep, k) - 1)]

\* Array.prototype.join: the parts from the k-th on, then all of them.
RECURSIVE JoinFrom(_, _, _)
JoinFrom(parts, sep, k) ==
    IF k > Len(parts) THEN << >>
    ELSE IF k = Len(parts) THEN parts[k]
    ELSE parts[k] \o <<sep>> \o JoinFrom(parts, sep, k + 1)
Join(parts, sep) == JoinFrom(parts, sep, 1)

\* A variant that takes one token as the text: const [, selector, text] = parts.
FillArgsFirstWord(parts) ==
    <<IF Len(parts) >= 2 THEN parts[2] ELSE Undefined,
      IF Len(parts) >= 3 THEN parts[3] ELSE << >>>>
\* const [, selector, ...textParts] = parts; the arguments of page.fill.
FillArgs(parts) ==
    <<IF Len(parts) >= 2 THEN parts[2] ELSE Undefined,
      Join(SubSeq(parts, 3, Len(parts)), Space)>>

Open(res) == [res EXCEPT !.state = "open"]
Close(res) == [res EXCEPT !.state = "closed", !.closes = @ + 1]

----------------------------------------------------------------------------
\* createSession (sessionManager.ts)

\* const sessionId = uuidv4(); chromium.launch(...) is invoked and awaited.
CreateSession_call(t) ==
    /\ CanCall(t)
    /\ LET id == uuidv4(issued) IN
        /\ issued' = issued \cup {id}
        /\ task' = [task EXCEPT ![t] =
                      [IdleTask EXCEPT !.kind = "create", !.sessionId = id, !.pc = "launch"]]
    /\ UNCHANGED <<sessions, browsers, contexts>>

\* launch settles: on success browser.newContext() is invoked and awaited.
CreateSession_launch(t) ==
    /\ task[t].kind = "create" /\ task[t].pc = "launch"
    /\ \/ /\ browsers' = [browsers EXCEPT ![t] = Open(@)]
          /\ task' = [task EXCEPT ![t].browser = t, ![t].pc = "newContext"]
       \/ /\ task' = [task EXCEPT ![t] = Throw(@, NewError(@, "acquire", t))]
          /\ UNCHANGED browsers
    /\ UNCHANGED <<sessions, contexts, issued>>

\* A variant that registers the entry as soon as the context exists.
CreateSession_newContextRegisters(t) ==
    /\ task[t].kind = "create" /\ task[t].pc = "newContext"
    /\ \/ /\ contexts' = [contexts EXCEPT ![t] = Open(@)]
          /\ task' = [task EXCEPT ![t].context = t, ![t].pc = "newPage"]
          /\ sessions' = SessionsSet(sessions, task[t].sessionId,
                            [browser |-> task[t].browser, context |-> t, page |-> NoHandle])
       \/ /\ task' = [task EXCEPT ![t] = Throw(@, NewError(@, "acquire", t))]
          /\ UNCHANGED <<contexts, sessions>>
    /\ UNCHANGED <<browsers, issued>>

\* newContext settles: on success context.newPage() is invoked and awaited.
CreateSession_newContext(t) ==
    /\ task[t].kind = "create" /\ task[t].pc = "newContext"
    /\ \/ /\ contexts' = [contexts EXCEPT ![t] = Open(@)]
          /\ task' = [task EXCEPT ![t].context = t, ![t].pc = "newPage"]
       \/ /\ task' = [task EXCEPT ![t] = Throw(@, NewError(@, "acquire", t))]
          /\ UNCHANGED contexts
    /\ UNCHANGED <<sessions, browsers, issued>>

\* A variant that registers the session without its page.
CreateSession_newPageNoPage(t) ==
    /\ task[t].kind = "create" /\ task[t].pc = "newPage"
    /\ \/ /\ sessions' = SessionsSet(sessions, task[t].sessionId,
                            [browser |-> task[t].browser, context |-> task[t].context,
                             page |-> NoHandle])
          /\ task' = [task EXCEPT ![t] = Finish(@, "id")]
       \/ /\ task' = [task EXCEPT ![t] = Throw(@, NewError(@, "acquire", t))]
          /\ UNCHANGED sessions
    /\ UNCHANGED <<browsers, contexts, issued>>

\* newPage settles: on success sessions.set(...) and return sessionId.
CreateSession_newPage(t) ==
    /\ task[t].kind = "create" /\ task[t].pc = "newPage"
    /\ \/ /\ sessions' = SessionsSet(sessions, task[t].sessionId,
                            [browser |-> task[t].browser, context |-> task[t].context,
                             page |-> t])
          /\ task' = [task EXCEPT ![t] = Finish(@, "id")]
       \/ /\ task' = [task EXCEPT ![t] = Throw(@, NewError(@, "acquire", t))]
          /\ UNCHANGED sessions
    /\ UNCHANGED <<browsers, contexts, issued>>

----------------------------------------------------------------------------
\* endSession (sessionManager.ts), called by a caller ("top"), by the CLOSE case
\* of runPlaywright ("try") or by its catch block ("catch").

\* endSession's promise settles with error e (NoError: it resolves).  A caller
\* outside sees the outcome; runPlaywright resumes from its await later.
EndReturn(tr, where, e) ==
    IF where = "top"
    THEN IF e = NoError THEN Finish(tr, "undefined") ELSE Throw(tr, e)
    ELSE [tr EXCEPT !.pc = "awaitEnd", !.where = where, !.endError = e]

\* A variant without the `if (session)` test: close is called on undefined.
EnterEndSessionUnchecked(tr, where, t) ==
    LET s == SessionsGet(sessions, tr.sessionId) IN
    IF s # NoSession
    THEN [tr EXCEPT !.session = s, !.where = where, !.pc = "ctxClose",
                    !.relCalls = @ + 1]
    ELSE EndReturn([tr EXCEPT !.nerr = @ + 1, !.relCalls = @ + 1], where,
                   NewError(tr, "type", t))

\* const session = sessions.get(sessionId); if (session) context.close() is
\* invoked and awaited; otherwise endSession returns.
EnterEndSession(tr, where, t) ==
    LET s == SessionsGet(sessions, tr.sessionId) IN
    IF s # NoSession
    THEN [tr EXCEPT !.session = s, !.where = where, !.pc = "ctxClose",
                    !.relCalls = @ + 1]
    ELSE EndReturn(tr, where, NoError)

EndSession_call(t, id) ==
    /\ CanCall(t)
    /\ task' = [task EXCEPT ![t] =
                  EnterEndSession([IdleTask EXCEPT !.kind = "end", !.sessionId = id,
                                                   !.regAtCall = Registered(id)],
                                  "top", t)]
    /\ UNCHANGED <<sessions, browsers, contexts, issued>>

\* session.context.close() settles: on success session.browser.close() is
\* invoked and awaited; on failure endSession rejects.
EndSession_contextClose(t) ==
    /\ task[t].pc = "ctxClose"
    /\ \/ /\ contexts' = [contexts EXCEPT ![task[t].session.context] = Close(@)]
          /\ task' = [task EXCEPT ![t].pc = "brClose", ![t].relCalls = @ + 1]
       \/ /\ task' = [task EXCEPT ![t] =
                        EndReturn([@ EXCEPT !.nerr = @ + 1], @.where,
                                  NewError(@, "release", t))]
          /\ UNCHANGED contexts
    /\ UNCHANGED <<sessions, browsers, issued>>

\* session.browser.close() settles: on success sessions.delete(sessionId) and
\* endSession returns; on failure endSession rejects.
EndSession_browserClose(t) ==
    /\ task[t].pc = "brClose"
    /\ \/ /\ browsers' = [browsers EXCEPT ![task[t].session.browser] = Close(@)]
          /\ sessions' = SessionsDelete(sessions, task[t].sessionId)
          /\ task' = [task EXCEPT ![t] = EndReturn(@, @.where, NoError)]
       \/ /\ task' = [task EXCEPT ![t] =
                        EndReturn([@ EXCEPT !.nerr = @ + 1], @.where,
                                  NewError(@, "release", t))]
          /\ UNCHANGED <<browsers, sessions>>
    /\ UNCHANGED <<contexts, issued>>

----------------------------------------------------------------------------
\* runPlaywright (playwrightRunner.ts)

\* A primitive of the page is invoked and awaited.
Invoke(tr, prim) == [tr EXCEPT !.pc = "prim", !.prim = prim]
InvokeWith(tr, prim, args) == [Invoke(tr, prim) EXCEPT !.args = args]

\* catch (error) { await endSession(sessionID); throw error; }: endSession is
\* entered.  The block reads sessionID and error only; the other locals are
\* dead from here on and are dropped.
Catch(tr, e, t) ==
    EnterEndSession([tr EXCEPT !.error = e, !.nerr = e[3],
                               !.method = "none", !.instruction = NoInstruction,
                               !.prim = "none", !.args = << >>, !.page = NoHandle],
                    "catch", t)

\* The messages of the `if (!instruction) throw new Error(...)` tests.
MissingMessage(method) ==
    CASE method = "GOTO" -> "Missing URL in instruction"
      [] method = "ACT" -> "Missing action instruction"
      [] method = "EXTRACT" -> "Missing extraction instruction"
      [] method = "OBSERVE" -> "Missing observation instruction"
      [] method = "WAIT" -> "Missing wait duration"

\* The methods whose case starts with `if (!instruction) throw ...`.
NeedsInstruction == {"GOTO", "ACT", "EXTRACT", "OBSERVE", "WAIT"}
MissingMessages == {MissingMessage(m) : m \in NeedsInstruction}

\* A variant that validates before the try block: the error escapes the catch.
DispatchValidatesOutsideTry(tr, t) ==
    LET instruction == tr.instruction
        missing == instruction = NoInstruction
        invalid == Throw([tr EXCEPT !.nerr = 1], NewError(tr, MissingMessage(tr.method), t))
    IN  CASE tr.method = "GOTO" ->
                IF missing THEN invalid ELSE Invoke(tr, "goto")
          [] tr.method = "ACT" ->
                IF missing THEN invalid
                ELSE IF StartsWith(instruction, <<"c", "l", "i", "c", "k">>)
                     THEN InvokeWith(tr, "click",
                                     <<Trim(Replace(instruction, <<"c", "l", "i", "c", "k">>, << >>))>>)
                     ELSE IF StartsWith(instruction, <<"t", "y", "p", "e">>)
                          THEN InvokeWith(tr, "fill", FillArgs(Split(instruction, Space)))
                          ELSE Finish(tr, "undefined")
          [] tr.method = "EXTRACT" ->
                IF missing THEN invalid ELSE Invoke(tr, "$eval")
          [] tr.method = "OBSERVE" ->
                IF missing THEN invalid ELSE Invoke(tr, "waitForSelector")
          [] tr.method = "SCREENSHOT" -> Invoke(tr, "screenshot")
          [] tr.method = "WAIT" ->
                IF missing THEN invalid ELSE Invoke(tr, "waitForTimeout")
          [] tr.method = "NAVBACK" -> Invoke(tr, "goBack")
          [] tr.method = "CLOSE" -> EnterEndSession(tr, "try", t)

\* A variant whose CLOSE case does not call endSession.
DispatchCloseSkipsTeardown(tr, t) ==
    LET instruction == tr.instruction
        missing == instruction = NoInstruction
        invalid == Catch(tr, NewError(tr, MissingMessage(tr.method), t), t)
    IN  CASE tr.method = "GOTO" ->
                IF missing THEN invalid ELSE Invoke(tr, "goto")
          [] tr.method = "ACT" ->
                IF missing THEN invalid
                ELSE IF StartsWith(instruction, <<"c", "l", "i", "c", "k">>)
                     THEN InvokeWith(tr, "click",
                                     <<Trim(Replace(instruction, <<"c", "l", "i", "c", "k">>, << >>))>>)
                     ELSE IF StartsWith(instruction, <<"t", "y", "p", "e">>)
                          THEN InvokeWith(tr, "fill", FillArgs(Split(instruction, Space)))
                          ELSE Finish(tr, "undefined")
          [] tr.method = "EXTRACT" ->
                IF missing THEN invalid ELSE Invoke(tr, "$eval")
          [] tr.method = "OBSERVE" ->
                IF missing THEN invalid ELSE Invoke(tr, "waitForSelector")
          [] tr.method = "SCREENSHOT" -> Invoke(tr, "screenshot")
          [] tr.method = "WAIT" ->
                IF missing THEN invalid ELSE Invoke(tr, "waitForTimeout")
          [] tr.method = "NAVBACK" -> Invoke(tr, "goBack")
          [] tr.method = "CLOSE" -> Finish(tr, "undefined")

\* The switch over the method, up to the first await, return or throw.
Dispatch(tr, t) ==
    LET instruction == tr.instruction
        missing == instruction = NoInstruction
        invalid == Catch(tr, NewError(tr, MissingMessage(tr.method), t), t)
    IN  CASE tr.method = "GOTO" ->
                IF missing THEN invalid ELSE Invoke(tr, "goto")
          [] tr.method = "ACT" ->
                IF missing THEN invalid
                ELSE IF StartsWith(instruction, <<"c", "l", "i", "c", "k">>)
                     THEN InvokeWith(tr, "click",
                                     <<Trim(Replace(instruction, <<"c", "l", "i", "c", "k">>, << >>))>>)
                     ELSE IF StartsWith(instruction, <<"t", "y", "p", "e">>)
                          THEN InvokeWith(tr, "fill", FillArgs(Split(instruction, Space)))
                          ELSE Finish(tr, "undefined")
          [] tr.method = "EXTRACT" ->
                IF missing THEN invalid ELSE Invoke(tr, "$eval")
          [] tr.method = "OBSERVE" ->
                IF missing THEN invalid ELSE Invoke(tr, "waitForSelector")
          [] tr.method = "SCREENSHOT" -> Invoke(tr, "screenshot")
          [] tr.method = "WAIT" ->
                IF missing THEN invalid ELSE Invoke(tr, "waitForTimeout")
          [] tr.method = "NAVBACK" -> Invoke(tr, "goBack")
          [] tr.method = "CLOSE" -> EnterEndSession(tr, "try", t)

\* What the method returns once its primitive has succeeded.
ResultOf(method) ==
    CASE method = "EXTRACT" -> "text"
      [] method = "OBSERVE" -> "observed"
      [] method = "SCREENSHOT" -> "base64"
      [] OTHER -> "undefined"

\* A variant with getSession-style leniency: an absent session returns nothing.
RunPlaywright_enteredLenient(t, id, req) ==
    LET s == SessionsGet(sessions, id)
        tr == [IdleTask EXCEPT !.kind = "run", !.sessionId = id,
                               !.method = req[1], !.instruction = req[2],
                               !.regAtCall = Registered(id),
                               !.sawReleased = s # NoSession /\ SessionReleased(s)]
    IN  IF s = NoSession
        THEN Finish(tr, "undefined")
        ELSE Dispatch([tr EXCEPT !.page = s.page], t)

\* The call's first segment: const { page } = getSession(sessionID) throws a
\* TypeError outside the try block when the session is undefined; otherwise
\* the switch runs.  The value is the call's state at its first await, return
\* or throw.
RunPlaywright_entered(t, id, req) ==
    LET s == SessionsGet(sessions, id)
        tr == [IdleTask EXCEPT !.kind = "run", !.sessionId = id,
                               !.method = req[1], !.instruction = req[2],
                               !.regAtCall = Registered(id),
                               !.sawReleased = s # NoSession /\ SessionReleased(s)]
    IN  IF s = NoSession
        THEN Throw([tr EXCEPT !.nerr = 1], NewError(tr, "type", t))
        ELSE Dispatch([tr EXCEPT !.page = s.page], t)

\* A variant behind a process-wide lock: one runPlaywright call at a time.
RunPlaywright_callOneAtATime(t, id, req) ==
    /\ CanCall(t)
    /\ \A u \in Tasks : task[u].kind = "run" => task[u].pc = "done"
    /\ task' = [task EXCEPT ![t] = RunPlaywright_entered(t, id, req)]
    /\ UNCHANGED <<sessions, browsers, contexts, issued>>

RunPlaywright_call(t, id, req) ==
    /\ CanCall(t)
    /\ task' = [task EXCEPT ![t] = RunPlaywright_entered(t, id, req)]
    /\ UNCHANGED <<sessions, browsers, contexts, issued>>

\* The pages hold an element for every selector but this one.
MissingSelector == <<"#", "z">>
\* page.$eval(selector, ...) is pending on a selector that matches no element.
NoMatch(tr) == tr.prim = "$eval" /\ tr.instruction = MissingSelector

\* A variant without timeouts: a primitive settles only by succeeding.
RunPlaywright_primitiveNoTimeout(t) ==
    /\ task[t].kind = "run" /\ task[t].pc = "prim"
    /\ ~Released(task[t].page)
    /\ task' = [task EXCEPT ![t] = Finish(@, ResultOf(@.method))]
    /\ UNCHANGED <<sessions, browsers, contexts, issued>>

\* The awaited primitive settles: it can succeed only on a page whose context
\* and browser are open.  Success returns; failure enters the catch block.
\* page.$eval finds its element with querySelector and rejects when the
\* selector matches no element ("nomatch"): the callback is never run on null.
RunPlaywright_primitive(t) ==
    /\ task[t].kind = "run" /\ task[t].pc = "prim"
    /\ \/ /\ ~Released(task[t].page) /\ ~NoMatch(task[t])
          /\ task' = [task EXCEPT ![t] = Finish(@, ResultOf(@.method))]
       \/ /\ task' = [task EXCEPT ![t] = Catch(@, NewError(@, "primitive", t), t)]
       \/ /\ ~Released(task[t].page) /\ NoMatch(task[t])
          /\ task' = [task EXCEPT ![t] = Catch(@, NewError(@, "nomatch", t), t)]
    /\ UNCHANGED <<sessions, browsers, contexts, issued>>

\* `await endSession(sessionID)` resumes, in the CLOSE case or in the catch block.
RunPlaywright_endSession(t) ==
    /\ task[t].kind = "run" /\ task[t].pc = "awaitEnd"
    /\ \/ /\ task[t].where = "try" /\ task[t].endError = NoError
          /\ task' = [task EXCEPT ![t] = Finish(@, "undefined")]
       \/ /\ task[t].where = "try" /\ task[t].endError # NoError
          /\ task' = [task EXCEPT ![t] = Catch([@ EXCEPT !.endError = NoError], @.endError, t)]
       \/ /\ task[t].where = "catch" /\ task[t].endError = NoError
          /\ task' = [task EXCEPT ![t] = Throw(@, @.error)]
       \/ /\ task[t].where = "catch" /\ task[t].endError # NoError
          /\ task' = [task EXCEPT ![t] = Throw(@, @.endError)]
    /\ UNCHANGED <<sessions, browsers, contexts, issued>>

----------------------------------------------------------------------------
\* getDebugInfo (sessionManager.ts)

\* const session = sessions.get(sessionId); if (session) page.screenshot() is
\* invoked and awaited; otherwise return {}.
GetDebugInfo_call(t, id) ==
    /\ CanCall(t)
    /\ LET s == SessionsGet(sessions, id)
           tr == [IdleTask EXCEPT !.kind = "debug", !.sessionId = id,
                                  !.regAtCall = Registered(id),
                                  !.sawReleased = s # NoSession /\ SessionReleased(s)]
       IN  task' = [task EXCEPT ![t] =
                      IF s # NoSession
                      THEN [tr EXCEPT !.session = s, !.page = s.page,
                                      !.pc = "prim", !.prim = "screenshot"]
                      ELSE Finish(tr, "{}")]
    /\ UNCHANGED <<sessions, browsers, contexts, issued>>

\* The screenshot settles: return { screenshot }, or the rejection propagates.
GetDebugInfo_screenshot(t) ==
    /\ task[t].kind = "debug" /\ task[t].pc = "prim"
    /\ \/ /\ ~Released(task[t].page)
          /\ task' = [task EXCEPT ![t] = Finish(@, "screenshot")]
       \/ /\ task' = [task EXCEPT ![t] =
                        Throw([@ EXCEPT !.nerr = @ + 1], NewError(@, "primitive", t))]
    /\ UNCHANGED <<sessions, browsers, contexts, issued>>

----------------------------------------------------------------------------

Next ==
    \E t \in Tasks :
        \/ CreateSession_call(t)
        \/ CreateSession_launch(t)
        \/ CreateSession_newContext(t)
        \/ CreateSession_newPage(t)
        \/ \E id \in Targets : EndSession_call(t, id)
        \/ EndSession_contextClose(t)
        \/ EndSession_browserClose(t)
        \/ \E id \in Targets : \E req \in Requests : RunPlaywright_call(t, id, req)
        \/ RunPlaywright_primitive(t)
        \/ RunPlaywright_endSession(t)
        \/ \E id \in Targets : GetDebugInfo_call(t, id)
        \/ GetDebugInfo_screenshot(t)

Spec == Init /\ [][Next]_vars

\* Every awaited primitive settles: goto and waitForSelector carry explicit
\* timeouts, click, fill and the others the provider's defaults, and the close
\* calls settle; the event loop resumes every settled await.
Fairness ==
    \A t \in Tasks :
        /\ WF_vars(RunPlaywright_primitive(t))
        /\ WF_vars(RunPlaywright_endSession(t))
        /\ WF_vars(EndSession_contextClose(t))
        /\ WF_vars(EndSession_browserClose(t))

FairSpec == Spec /\ Fairness

\* Two live sessions: the state after two createSession calls have returned
\* ids 1 and 2, seen by callers that make the other calls.
TwoSessions == {1, 2}

InitPair ==
    /\ sessions = [i \in Ids \cup {UnknownId} |->
                      IF i \in TwoSessions
                      THEN [browser |-> i, context |-> i, page |-> i]
                      ELSE NoSession]
    /\ browsers = [h \in Handles |-> IF h \in TwoSessions THEN Open(NoResource) ELSE NoResource]
    /\ contexts = [h \in Handles |-> IF h \in TwoSessions THEN Open(NoResource) ELSE NoResource]
    /\ issued = TwoSessions
    /\ task = [t \in Tasks |-> IdleTask]

\* The callers that act on the two sessions.
NumCallers == 2
Callers == 1..NumCallers

NextPair ==
    \E t \in Callers :
        \/ \E id \in TwoSessions : EndSession_call(t, id)
        \/ EndSession_contextClose(t)
        \/ EndSession_browserClose(t)
        \/ \E id \in TwoSessions : \E req \in Requests : RunPlaywright_call(t, id, req)
        \/ RunPlaywright_primitive(t)
        \/ RunPlaywright_endSession(t)
        \/ \E id \in TwoSessions : GetDebugInfo_call(t, id)
        \/ GetDebugInfo_screenshot(t)

SpecPair == InitPair /\ [][NextPair]_vars

\* ACT instructions of the documented forms `click <selector>` and
\* `type <selector> <text...>`, built from their tokens.
MaxWords == 3
Words == {<<"#", "a">>, <<"h", "i">>}
\* Text may hold adjacent spaces: an empty token.
TextWords == Words \cup {<< >>}
Click == <<"c", "l", "i", "c", "k">>
Type == <<"t", "y", "p", "e">>
SelectorTokens == UNION {[1..n -> Words] : n \in 1..MaxWords}
TextTokens == UNION {[1..n -> TextWords] : n \in 0..(MaxWords - 1)}
ClickForm(toks) == Join(<<Click>> \o toks, Space)
TypeForm(selector, text) == Join(<<Type, selector>> \o text, Space)
ActRequests ==
    {<<"ACT", ClickForm(toks)>> : toks \in SelectorTokens}
        \cup {<<"ACT", TypeForm(sel, text)>> : sel \in Words, text \in TextTokens}

\* A caller that awaits each call before it makes the next one.
NoCallPending == \A u \in Tasks : task[u].pc \in {"idle", "done"}

\* Such a caller sends ACT instructions to the two live sessions.
NextAct ==
    \E t \in Tasks :
        \/ /\ NoCallPending
           /\ \E id \in TwoSessions : \E req \in ActRequests : RunPlaywright_call(t, id, req)
        \/ RunPlaywright_primitive(t)
        \/ RunPlaywright_endSession(t)
        \/ EndSession_contextClose(t)
        \/ EndSession_browserClose(t)

SpecAct == InitPair /\ [][NextAct]_vars

\* EXTRACT on a selector that matches an element and on one that matches none.
ExtractRequests == {<<"EXTRACT", PlainInstr>>, <<"EXTRACT", MissingSelector>>}

\* A caller that awaits each call sends EXTRACT to the two live sessions.
NextExtract ==
    \E t \in Tasks :
        \/ /\ NoCallPending
           /\ \E id \in TwoSessions : \E req \in ExtractRequests : RunPlaywright_call(t, id, req)
        \/ RunPlaywright_primitive(t)
        \/ RunPlaywright_endSession(t)
        \/ EndSession_contextClose(t)
        \/ EndSession_browserClose(t)

SpecExtract == InitPair /\ [][NextExtract]_vars

----------------------------------------------------------------------------
\* Properties

RunTasks == {t \in Tasks : task[t].kind = "run"}
EndTasks == {t \in Tasks : task[t].kind = "end"}
CreateTasks == {t \in Tasks : task[t].kind = "create"}
Done(t) == task[t].pc = "done"

\* An error raised by a browser primitive (close included), not by validation.
PrimitiveError(e) == e[1] \in {"primitive", "release"}

\* C1: fail-closed teardown.  When runPlaywright has thrown to its caller the
\* error that a primitive of its action raised, the session is absent from
\* the registry.
C1_FailClosedTeardown ==
    \A t \in RunTasks :
        (Done(t) /\ PrimitiveError(task[t].error) /\ task[t].thrown = task[t].error)
            => ~Registered(task[t].sessionId)

\* A failed action on a registered session has thrown its primitive's error
\* and the session is gone.
C1_Witness ==
    \E t \in RunTasks :
        /\ Done(t) /\ task[t].regAtCall
        /\ task[t].error[1] = "primitive" /\ task[t].thrown = task[t].error
        /\ task[t].relCalls = 2
        /\ ~Registered(task[t].sessionId)

\* C2: the original error is propagated.  Whenever a primitive raised error e
\* inside runPlaywright, the call ends by throwing exactly e, also when the
\* release calls of the teardown fail.
C2_OriginalErrorPropagated ==
    \A t \in RunTasks :
        (Done(t) /\ PrimitiveError(task[t].error)) => task[t].thrown = task[t].error

\* C3: best-effort teardown.  endSession called for a registered session
\* leaves it unregistered and raises no error, whatever the release calls do.
C3_BestEffortTeardown ==
    /\ \A t \in EndTasks :
          (Done(t) /\ task[t].regAtCall)
              => (~Registered(task[t].sessionId) /\ task[t].thrown = NoError)
    /\ \A t \in RunTasks : task[t].pc = "awaitEnd" => task[t].endError = NoError

\* C4: no leak.  Every open browser instance is owned by a registry entry or
\* by the createSession call that is still acquiring the session's handles.
C4_NoLeak ==
    \A h \in Handles :
        browsers[h].state = "open"
            => \/ \E id \in Ids : sessions[id].browser = h
               \/ \E t \in CreateTasks : ~Done(t) /\ task[t].browser = h

\* C5: release exactly once.  No context or browser is released more than
\* once, and the handles of a session that has been removed from the registry
\* have each been released once.
C5_ReleasedExactlyOnce ==
    /\ \A h \in Handles : contexts[h].closes <= 1 /\ browsers[h].closes <= 1
    /\ \A t \in CreateTasks :
          (Done(t) /\ task[t].result = "id" /\ ~Registered(task[t].sessionId))
              => (contexts[t].closes = 1 /\ browsers[t].closes = 1)

\* C6: endSession is idempotent.  After an endSession(s) that returned, s is
\* absent; an endSession on an absent id (a second call, or an id never
\* registered) invokes no release call, raises no error and leaves the
\* registry and the handles unchanged.
C6_EndSessionIdempotent ==
    /\ [](\A t \in EndTasks :
            /\ (Done(t) /\ task[t].thrown = NoError) => ~Registered(task[t].sessionId)
            /\ (Done(t) /\ ~task[t].regAtCall)
                  => (task[t].relCalls = 0 /\ task[t].thrown = NoError))
    /\ [][\A t \in Tasks :
            (task[t].pc = "idle" /\ task'[t].kind = "end" /\ ~task'[t].regAtCall)
                => (task'[t].pc = "done"
                    /\ UNCHANGED <<sessions, browsers, contexts>>)]_vars

\* A second endSession on a session that an earlier endSession removed.
C6_Witness ==
    \E t, u \in EndTasks :
        /\ Done(t) /\ Done(u) /\ task[t].sessionId = task[u].sessionId
        /\ task[t].regAtCall /\ task[t].thrown = NoError
        /\ ~task[u].regAtCall /\ task[u].sessionId \in Returned

\* C7: per-session serialization.  At most one runPlaywright call has a
\* primitive in flight on the page of a session.
C7_PerSessionSerialization ==
    \A h \in Handles :
        Cardinality({t \in RunTasks : task[t].pc = "prim" /\ task[t].page = h}) <= 1

\* C8: registry operations are atomic.  getSession never returns a session
\* whose context or browser a teardown has already released.
C8_LookupNeverSeesReleased ==
    \A t \in RunTasks : ~task[t].sawReleased

\* C9: createSession postcondition.  In the step in which createSession
\* returns id s, the registry binds s to a record with a browser, a context
\* and a page, all open, and s was not bound to any session before.
C9_CreateSessionPostcondition ==
    [][\A t \in Tasks :
         (task[t].pc = "newPage" /\ task'[t].pc = "done" /\ task'[t].result = "id")
             => LET s == task'[t].sessionId
                    rec == sessions'[s]
                IN  /\ rec.browser # NoHandle /\ rec.context # NoHandle
                    /\ rec.page # NoHandle
                    /\ rec.page = rec.context /\ rec.context = rec.browser
                    /\ browsers'[rec.browser].state = "open"
                    /\ contexts'[rec.context].state = "open"
                    /\ sessions[s] = NoSession
                    /\ \A id \in Ids \ {s} :
                          sessions'[id] = sessions[id] /\ sessions'[id].browser # rec.browser]_vars

\* Two createSession calls have both returned an id and both sessions are registered.
C9_Witness ==
    \E t, u \in CreateTasks :
        /\ t # u /\ Done(t) /\ Done(u)
        /\ task[t].result = "id" /\ task[u].result = "id"
        /\ Registered(task[t].sessionId) /\ Registered(task[u].sessionId)

\* C10: createSession is all-or-nothing.  A createSession that fails throws
\* the acquisition error and no step of it has added an entry: the registry
\* changes only in the step that returns the id.
C10_CreateSessionAllOrNothing ==
    /\ [](\A t \in CreateTasks :
            (Done(t) /\ task[t].result # "id")
                => /\ task[t].thrown[1] = "acquire"
                   /\ ~Registered(task[t].sessionId)
                   /\ \A id \in Ids : sessions[id].browser # t)
    /\ [][\A t \in Tasks :
            (task'[t].kind = "create" /\ task'[t] # task[t] /\ task'[t].result # "id")
                => sessions' = sessions]_vars

\* A createSession failed after it had acquired its browser.
C10_Witness ==
    \E t \in CreateTasks :
        /\ Done(t) /\ task[t].thrown[1] = "acquire"
        /\ browsers[t].state = "open"

DebugTasks == {t \in Tasks : task[t].kind = "debug"}

ValidationError(e) == e[1] \in MissingMessages

\* C12: validate-before-act.  For GOTO, ACT, EXTRACT, OBSERVE and WAIT, a call
\* on a registered session with the instruction missing raises the method's
\* validation error as the first thing it does, with no page primitive
\* invoked, and the call fails with that validation error.
C12_ValidateBeforeAct ==
    /\ \A t \in Tasks : \A id \in Ids : \A m \in NeedsInstruction :
          Registered(id)
              => LET r == RunPlaywright_entered(t, id, <<m, NoInstruction>>)
                 IN  /\ r.error = <<MissingMessage(m), t, 1>>
                     /\ r.pc # "prim" /\ r.prim = "none"
    /\ \A t \in RunTasks :
          (Done(t) /\ ValidationError(task[t].error))
              => task[t].thrown = task[t].error

\* C13: validation failures are fail-closed.  When runPlaywright has thrown a
\* validation error to its caller, the session is absent from the registry.
C13_ValidationFailClosed ==
    \A t \in RunTasks :
        (Done(t) /\ ValidationError(task[t].thrown))
            => ~Registered(task[t].sessionId)

\* A call with a missing instruction on a registered session has thrown its
\* validation error after a complete teardown.
C13_Witness ==
    \E t \in RunTasks :
        /\ Done(t) /\ task[t].regAtCall /\ ValidationError(task[t].thrown)
        /\ task[t].relCalls = 2
        /\ ~Registered(task[t].sessionId)

\* C14 as stated: a call with the instruction omitted that has failed with
\* the validation error has left the session intact: still registered, its
\* handles unreleased.
C14_ValidationLeavesSessionIntact ==
    \A t \in RunTasks :
        (Done(t) /\ task[t].regAtCall /\ ValidationError(task[t].thrown))
            => /\ Registered(task[t].sessionId)
               /\ ~SessionReleased(sessions[task[t].sessionId])

\* C14 as amended: a call with the instruction omitted raises the validation
\* error before any primitive, and the session is not left intact: the catch
\* block enters endSession in the same segment, which invokes context.close()
\* on the session; every such call has made a release call when it ends.
C14_ValidationStartsTeardown ==
    /\ \A t \in Tasks : \A id \in Ids : \A m \in NeedsInstruction :
          (CanCall(t) /\ Registered(id))
              => \A r \in {RunPlaywright_entered(t, id, <<m, NoInstruction>>)} :
                     /\ ValidationError(r.error)
                     /\ r.pc = "ctxClose" /\ r.where = "catch"
                     /\ r.session = sessions[id] /\ r.relCalls = 1
    /\ \A t \in RunTasks :
          (task[t].regAtCall /\ ValidationError(task[t].error))
              => task[t].relCalls >= 1

\* A call has just failed validation: its teardown awaits context.close().
C14_Witness ==
    \E t \in RunTasks :
        /\ task[t].pc = "ctxClose" /\ task[t].where = "catch"
        /\ ValidationError(task[t].error) /\ task[t].relCalls = 1
        /\ Registered(task[t].sessionId)
        /\ ~SessionReleased(sessions[task[t].sessionId])

\* C15: CLOSE delegates to teardown.  A CLOSE on a registered session enters
\* endSession at once; when it returns, the session is absent and its context
\* and browser are closed; an absent session stays absent, and getDebugInfo on
\* an absent session returns {}.
C15_CloseTearsDown ==
    /\ [](\A t \in Tasks : \A id \in Ids :
            (CanCall(t) /\ Registered(id))
                => \A r \in {RunPlaywright_entered(t, id, <<"CLOSE", NoInstruction>>)} :
                       /\ r.pc = "ctxClose" /\ r.where = "try"
                       /\ r.session = sessions[id])
    /\ [][\A t \in Tasks :
            (task[t].kind = "run" /\ task[t].method = "CLOSE"
                /\ task'[t].pc = "done" /\ task'[t].thrown = NoError)
                => /\ ~Registered(task[t].sessionId)'
                   /\ contexts'[task[t].session.context].state = "closed"
                   /\ browsers'[task[t].session.browser].state = "closed"]_vars
    /\ [][\A id \in Returned : ~Registered(id) => ~Registered(id)']_vars
    /\ [][\A t \in Tasks :
            (task[t].pc = "idle" /\ task'[t].kind = "debug" /\ ~task'[t].regAtCall)
                => /\ task'[t].pc = "done" /\ task'[t].result = "{}"
                   /\ task'[t].thrown = NoError]_vars

\* A CLOSE has returned after closing both handles, and a later getDebugInfo
\* on the same id has returned {}.
C15_Witness ==
    \E t \in RunTasks : \E u \in DebugTasks :
        /\ t < u /\ task[t].sessionId = task[u].sessionId
        /\ Done(t) /\ task[t].regAtCall /\ task[t].result = "undefined"
        /\ task[t].error = NoError /\ task[t].relCalls = 2
        /\ Done(u) /\ ~task[u].regAtCall /\ task[u].result = "{}"

\* C16: getDebugInfo never throws and is read-only.  Every getDebugInfo call
\* ends with a value, {} when the session is absent, and no step of it
\* changes the registry or a handle.
C16_GetDebugInfoNeverThrows ==
    /\ [](\A t \in DebugTasks :
            Done(t) => /\ task[t].thrown = NoError
                       /\ (~task[t].regAtCall => task[t].result = "{}"))
    /\ [][\A t \in Tasks :
            (task'[t].kind = "debug" /\ task'[t] # task[t])
                => UNCHANGED <<sessions, browsers, contexts>>]_vars

\* C17: registry invariant.  No two registered sessions share a browser,
\* context or page handle; no two createSession calls use the same id; and an
\* id is bound only while it has never been bound before.
C17_RegistryInvariant ==
    /\ [](\A i, j \in Ids :
            (i # j /\ Registered(i) /\ Registered(j))
                => /\ sessions[i].browser # sessions[j].browser
                   /\ sessions[i].context # sessions[j].context
                   /\ sessions[i].page # sessions[j].page)
    /\ [](\A t, u \in CreateTasks : t # u => task[t].sessionId # task[u].sessionId)
    /\ [][\A id \in Ids :
            (sessions'[id] # sessions[id] /\ sessions'[id] # NoSession)
                => (sessions[id] = NoSession /\ id \notin Returned)]_vars

\* Two sessions were created; one has been torn down and the other is live.
C17_Witness ==
    \E t, u \in CreateTasks :
        /\ Done(t) /\ task[t].result = "id" /\ ~Registered(task[t].sessionId)
        /\ Done(u) /\ task[u].result = "id" /\ Registered(task[u].sessionId)
        /\ browsers[t].state = "closed" /\ browsers[u].state = "open"

\* C20: a malformed ACT instruction is rejected.  A runPlaywright call never
\* returns success from its first segment, that is without having invoked any
\* primitive or teardown: a call that settles at once has thrown.
C20_MalformedActRejected ==
    [][\A t \in Tasks :
         (task[t].pc = "idle" /\ task'[t].kind = "run" /\ task'[t].pc = "done")
             => task'[t].thrown # NoError]_vars

\* C19: every action terminates.  Under FairSpec every runPlaywright call on
\* a registered session eventually returns or throws, the teardown after a
\* failure included.
C19_EveryActionTerminates ==
    \A t \in Tasks :
        (task[t].kind = "run" /\ task[t].regAtCall) ~> (task[t].pc = "done")

\* A call whose primitive failed has ended after a teardown that failed too.
C19_Witness ==
    \E t \in RunTasks :
        /\ Done(t) /\ task[t].regAtCall
        /\ task[t].error[1] = "primitive" /\ task[t].thrown[1] = "release"

\* The requests that invoke a page primitive.
PrimitiveRequests ==
    {req \in Requests :
        /\ req[1] # "CLOSE"
        /\ req[1] \in NeedsInstruction => req[2] # NoInstruction
        /\ req # <<"ACT", PlainInstr>>}

\* C18: independent sessions do not block each other.  While a call a has a
\* primitive pending (WAIT, GOTO, OBSERVE, ...) on one session, any call on a
\* different registered session can be made and invokes its primitive at
\* once, a pending primitive of another session can settle, the pending
\* primitive of a can itself settle, and no step of a call on another session
\* releases the page a waits on.
C18_IndependentSessions ==
    /\ [](\A a \in RunTasks :
            task[a].pc = "prim"
                => /\ ENABLED RunPlaywright_primitive(a)
                   /\ \A b \in Tasks \ {a} :
                        /\ CanCall(b)
                              => \A id \in Ids \ {task[a].sessionId} : \A req \in Requests :
                                    Registered(id)
                                        => /\ ENABLED RunPlaywright_call(b, id, req)
                                           /\ req \in PrimitiveRequests
                                                 => RunPlaywright_entered(b, id, req).pc = "prim"
                        /\ (task[b].kind = "run" /\ task[b].pc = "prim")
                              => ENABLED RunPlaywright_primitive(b))
    /\ [][\A a, b \in Tasks :
            (/\ task[a].kind = "run" /\ task[a].pc = "prim"
             /\ task'[b] # task[b] /\ task'[b].sessionId # task[a].sessionId)
                => (Released(task[a].page)' <=> Released(task[a].page))]_vars

\* While a WAIT is pending on one session, a call made later on the other
\* session has run its primitive and returned its result.
C18_Witness ==
    \E a, b \in RunTasks :
        /\ a < b /\ task[a].pc = "prim" /\ task[a].method = "WAIT"
        /\ ~Released(task[a].page)
        /\ Done(b) /\ task[b].regAtCall /\ task[b].sessionId # task[a].sessionId
        /\ task[b].result = "base64" /\ task[b].thrown = NoError

\* C21: ACT dispatch.  While the primitive of an ACT call is pending: for an
\* instruction `click <selector>` it is click with the selector (all tokens
\* after the verb) as its only argument; for `type <selector> <text...>` it
\* is fill with the token after the verb as selector and the remaining tokens
\* joined by single spaces as text.  A call invokes nothing else: its pending
\* primitive and arguments never change into another invocation, and a call
\* that returns normally returns from that primitive.
C21_ActDispatch ==
    /\ [](\A t \in RunTasks :
            (task[t].pc = "prim" /\ task[t].method = "ACT")
                => /\ \A toks \in SelectorTokens :
                        task[t].instruction = ClickForm(toks)
                            => /\ task[t].prim = "click"
                               /\ task[t].args = <<Join(toks, Space)>>
                   /\ \A sel \in Words : \A text \in TextTokens :
                        task[t].instruction = TypeForm(sel, text)
                            => /\ task[t].prim = "fill"
                               /\ task[t].args = <<sel, Join(text, Space)>>)
    /\ [][\A t \in Tasks :
            /\ (task[t].pc = "idle" /\ task'[t].kind = "run" /\ task'[t].regAtCall)
                  => task'[t].pc = "prim"
            /\ (task[t].kind = "run" /\ task[t].pc # "prim")
                  => task'[t].pc # "prim"
            /\ (task[t].pc = "prim" /\ task'[t].pc = "prim")
                  => task'[t] = task[t]]_vars

\* A click has returned, and the fill of a later `type #a hi hi` is pending
\* with selector #a and text `hi hi`.
C21_Witness ==
    \E a, b \in RunTasks :
        /\ Done(a) /\ task[a].regAtCall /\ task[a].result = "undefined"
        /\ task[a].thrown = NoError /\ task[a].relCalls = 0
        /\ task[b].pc = "prim" /\ task[b].prim = "fill"
        /\ task[b].instruction =
              <<"t", "y", "p", "e", " ", "#", "a", " ", "h", "i", " ", "h", "i">>
        /\ task[b].args = <<<<"#", "a">>, <<"h", "i", " ", "h", "i">>>>

\* C22: EXTRACT on a missing element.  When the $eval of an EXTRACT on a
\* selector that matches no element settles on a live page, the call returns
\* null without an error and the session stays registered.
C22_ExtractMissingReturnsNull ==
    [][\A t \in Tasks :
        (/\ task[t].kind = "run" /\ task[t].pc = "prim" /\ NoMatch(task[t])
         /\ ~Released(task[t].page) /\ task'[t] # task[t])
            => /\ task'[t].pc = "done" /\ task'[t].result = "null"
               /\ task'[t].thrown = NoError /\ task'[t].error = NoError
               /\ Registered(task[t].sessionId)']_vars

\* Teardown of session id has begun: some call has invoked context.close() on it.
TeardownBegun(id) ==
    \E u \in Tasks : task[u].sessionId = id /\ task[u].relCalls >= 1

\* C23: no primitive on a dead session.  A runPlaywright or getDebugInfo call
\* made on a session whose teardown has begun invokes no primitive on its
\* page.
C23_NoPrimitiveOnDeadSession ==
    [][\A t \in Tasks :
        (/\ task[t].pc = "idle" /\ task'[t].kind \in {"run", "debug"}
         /\ TeardownBegun(task'[t].sessionId))
            => task'[t].pc # "prim"]_vars

\* Task t takes the step, and it is a segment of a teardown of session id: of
\* an endSession(id) call, of a CLOSE on id, or of the catch block of a failed
\* action on id.
TeardownStepOn(t, id) ==
    /\ task'[t] # task[t] /\ task[t].sessionId = id
    /\ \/ task[t].kind = "end"
       \/ task[t].kind = "run" /\ task[t].where \in {"try", "catch"}

\* C24: sessions are removed only for cause.  A step that changes the entry
\* of a registered session s, or invokes close on a context or browser that
\* createSession made for s, is a step of endSession(s), of a CLOSE on s or of
\* the catch block of a failed action on s; a step in which an action's
\* primitive succeeds leaves the registry and every handle unchanged.
C24_RemovedOnlyForCause ==
    /\ [][\A id \in Ids :
            (Registered(id) /\ sessions'[id] # sessions[id])
                => \E t \in Tasks : TeardownStepOn(t, id)]_vars
    /\ [][\A h \in Handles :
            (contexts'[h].closes > contexts[h].closes
                \/ browsers'[h].closes > browsers[h].closes)
                => /\ task[h].kind = "create"
                   /\ \E t \in Tasks : TeardownStepOn(t, task[h].sessionId)]_vars
    /\ [][\A t \in RunTasks :
            (task[t].pc = "prim" /\ task'[t].pc = "done" /\ task'[t].thrown = NoError)
                => UNCHANGED <<sessions, browsers, contexts>>]_vars

\* Two sessions were created and an endSession on the first has returned: the
\* first is gone, the second is still registered with its handles open.
C24_Witness ==
    \E a, b \in CreateTasks : \E e \in EndTasks :
        /\ a # b /\ Done(e) /\ task[e].regAtCall /\ task[e].thrown = NoError
        /\ task[e].sessionId = task[a].sessionId
        /\ ~Registered(task[a].sessionId) /\ Released(a)
        /\ Registered(task[b].sessionId)
        /\ sessions[task[b].sessionId] = [browser |-> b, context |-> b, page |-> b]
        /\ ~Released(b)

====
